---- MODULE Spec2Model ----
(***************************************************************************)
(* Model of nuplan/planning/script/run_ml.py: the module-level resolution  *)
(* of CONFIG_PATH, run_simulation, clean_up_s3_artifacts and main.         *)
(*                                                                         *)
(* Strings are sequences of one-character strings, so that find, slicing,  *)
(* os.path.join and os.path.basename are computed as Python computes them. *)
(* The external collaborators (seed_everything, the builders, run_runners, *)
(* save_profiler, rmtree) are opaque calls: each is recorded in `calls`    *)
(* with the arguments it received and either returns or raises.            *)
(***************************************************************************)
EXTENDS Integers, Sequences, FiniteSets, TLC

VARIABLES
    pc,             \* position of the control flow
    entry,          \* which function the caller invoked
    cfg,            \* the DictConfig: keys, struct flag, option values
    cfg_in,         \* the DictConfig as it was when the call was entered
    planners,       \* the local variable `planners` of run_simulation
    planners_in,    \* the planners argument as run_simulation received it
    common_builder, \* the result of set_up_common_builder
    calls,          \* the collaborator calls made so far, in order
    raised,         \* the exception propagating out, "none" if none
    cwd,            \* os.getcwd()
    rmtree_calls,   \* the paths rmtree was called on, in order
    env,            \* os.environ: NUPLAN_HYDRA_CONFIG_PATH
    CONFIG_PATH     \* the module global CONFIG_PATH

vars == <<pc, entry, cfg, cfg_in, planners, planners_in, common_builder, calls, raised,
          cwd, rmtree_calls, env, CONFIG_PATH>>

----------------------------------------------------------------------------
(* Bounds of the model *)

\* the longest list of pre-built planners passed to run_simulation
MaxPlanners == 2
\* the longest working-directory string given to clean_up_s3_artifacts
MaxCwdLen == 7
\* the number of path pieces an override value of the environment is made of
MaxEnvPieces == 4

----------------------------------------------------------------------------
(* Strings *)

Concat(ss) ==
    LET RECURSIVE cat(_)
        cat(i) == IF i > Len(ss) THEN <<>> ELSE ss[i] \o cat(i + 1)
    IN cat(1)

StrsUpTo(alphabet, n) == UNION {[1..k -> alphabet] : k \in 0..n}

Slash == <<"/">>
Simulation == <<"s", "i", "m", "u", "l", "a", "t", "i", "o", "n">>
Config == <<"c", "o", "n", "f", "i", "g">>
DotDot == <<".", ".">>
Script == <<"s", "c", "r", "i", "p", "t">>

StartsWith(s, pre) ==
    Len(pre) <= Len(s) /\ SubSeq(s, 1, Len(pre)) = pre

EndsWith(s, suf) ==
    Len(suf) <= Len(s) /\ SubSeq(s, Len(s) - Len(suf) + 1, Len(s)) = suf

\* whether sub occurs in s at the 0-based offset i
OccursAt(s, sub, i) ==
    i >= 0 /\ i + Len(sub) <= Len(s) /\ SubSeq(s, i + 1, i + Len(sub)) = sub

----------------------------------------------------------------------------
(* Python library functions, as the script uses them *)

\* str.find(sub): the lowest 0-based offset at which sub occurs, -1 if none
str_find(s, sub) ==
    IF \E i \in 0..Len(s) : OccursAt(s, sub, i)
    THEN CHOOSE i \in 0..Len(s) :
            /\ OccursAt(s, sub, i)
            /\ \A j \in 0..(i - 1) : ~OccursAt(s, sub, j)
    ELSE -1

\* str.rfind(sub): the highest 0-based offset at which sub occurs, -1 if none
str_rfind(s, sub) ==
    IF \E i \in 0..Len(s) : OccursAt(s, sub, i)
    THEN CHOOSE i \in 0..Len(s) :
            /\ OccursAt(s, sub, i)
            /\ \A j \in (i + 1)..Len(s) : ~OccursAt(s, sub, j)
    ELSE -1

\* s[:n] for 0 <= n
str_upto(s, n) == SubSeq(s, 1, IF n < Len(s) THEN n ELSE Len(s))

\* s[n:] for 0 <= n
str_from(s, n) == SubSeq(s, n + 1, Len(s))

\* posixpath.join(a, b): an absolute b discards a; a separator is inserted
\* unless a is empty or already ends with one
os_path_join(a, b) ==
    IF StartsWith(b, Slash) THEN b
    ELSE IF a = <<>> \/ EndsWith(a, Slash) THEN a \o b
    ELSE a \o Slash \o b

\* posixpath.basename(p): what follows the last separator
os_path_basename(p) == str_from(p, str_rfind(p, Slash) + 1)

----------------------------------------------------------------------------
(* CONFIG_PATH, resolved when the module is imported (lines 26-34) *)

\* the default of os.getenv('NUPLAN_HYDRA_CONFIG_PATH', 'config/simulation')
DefaultConfigPath == Config \o Slash \o Simulation

\* '../../../../'
RelativePrefix ==
    DotDot \o Slash \o DotDot \o Slash \o DotDot \o Slash \o DotDot \o Slash

\* '../script/config/simulation', set when the file is run as a script
ScriptConfigPath ==
    DotDot \o Slash \o Script \o Slash \o Config \o Slash \o Simulation

Unset == [set |-> FALSE, value |-> <<>>]

EnvPieces == {Slash, Simulation, <<"x">>}

EnvValues == {Concat(ps) : ps \in StrsUpTo(EnvPieces, MaxEnvPieces)}

Environments == {Unset} \cup {[set |-> TRUE, value |-> v] : v \in EnvValues}

\* a mutation of lacks_simulation_dir: a suffix test in place of the
\* comparison of the last path component
lacks_simulation_suffix(path) == ~EndsWith(path, Simulation)

\* line 32: os.path.basename(CONFIG_PATH) != 'simulation'
lacks_simulation_dir(path) == os_path_basename(path) # Simulation

\* line 27: CONFIG_PATH = os.getenv('NUPLAN_HYDRA_CONFIG_PATH', 'config/simulation')
GetEnvConfigPath ==
    /\ pc = "L27"
    /\ CONFIG_PATH' = IF env.set THEN env.value ELSE DefaultConfigPath
    /\ pc' = "L29"
    /\ UNCHANGED <<entry, cfg, cfg_in, planners, planners_in, common_builder, calls, raised,
                   cwd, rmtree_calls, env>>

\* lines 29-30: an override is re-rooted under '../../../../'
JoinRelativePrefix ==
    /\ pc = "L29"
    /\ CONFIG_PATH' = IF env.set
                      THEN os_path_join(RelativePrefix, CONFIG_PATH)
                      ELSE CONFIG_PATH
    /\ pc' = "L32"
    /\ UNCHANGED <<entry, cfg, cfg_in, planners, planners_in, common_builder, calls, raised,
                   cwd, rmtree_calls, env>>

\* lines 32-33: a 'simulation' directory is appended unless it is the last component
AppendSimulationDir ==
    /\ pc = "L32"
    /\ CONFIG_PATH' = IF lacks_simulation_dir(CONFIG_PATH)
                      THEN os_path_join(CONFIG_PATH, Simulation)
                      ELSE CONFIG_PATH
    /\ pc' = "imported"
    /\ UNCHANGED <<entry, cfg, cfg_in, planners, planners_in, common_builder, calls, raised,
                   cwd, rmtree_calls, env>>

\* line 122: run as a script, the module rebinds CONFIG_PATH
ScriptConfigPathOverride ==
    /\ pc = "imported"
    /\ CONFIG_PATH' = ScriptConfigPath
    /\ pc' = "script"
    /\ UNCHANGED <<entry, cfg, cfg_in, planners, planners_in, common_builder, calls, raised,
                   cwd, rmtree_calls, env>>

----------------------------------------------------------------------------
(* clean_up_s3_artifacts (lines 83-96) *)

\* line 92: s3_dirname = "s3:"
S3Dirname == <<"s", "3", ":">>

\* str(pathlib.Path(s)) for a path without '.' components: repeated separators
\* collapse, a trailing separator is dropped, exactly two leading separators
\* are kept, and the empty path is '.'
PurePath_str(s) ==
    LET RECURSIVE collapse(_, _)
        collapse(i, acc) ==
            IF i > Len(s) THEN acc
            ELSE IF s[i] = "/" /\ acc # <<>> /\ acc[Len(acc)] = "/"
                 THEN collapse(i + 1, acc)
                 ELSE collapse(i + 1, Append(acc, s[i]))
        c == collapse(1, <<>>)
        stripped == IF Len(c) > 1 /\ EndsWith(c, Slash)
                    THEN SubSeq(c, 1, Len(c) - 1)
                    ELSE c
    IN  IF s = <<>> THEN <<".">>
        ELSE IF StartsWith(s, Slash \o Slash) /\ ~StartsWith(s, Slash \o Slash \o Slash)
             THEN Slash \o stripped
             ELSE stripped

CwdAlphabet == {"/", "s", "3", ":"}

\* os.getcwd() is an absolute, normalised path
WorkingDirs ==
    {w \in StrsUpTo(CwdAlphabet, MaxCwdLen) :
        StartsWith(w, Slash) /\ PurePath_str(w) = w /\ ~StartsWith(w, Slash \o Slash)}

\* a mutation of local_s3_path: the slice stops at the last occurrence of the marker
local_s3_path_last(working_path) ==
    str_upto(working_path, str_rfind(working_path, S3Dirname) + Len(S3Dirname))

\* a mutation of local_s3_path: the slice stops before the marker
local_s3_path_before(working_path) ==
    str_upto(working_path, str_find(working_path, S3Dirname))

\* line 95: working_path[: working_path.find(s3_dirname) + len(s3_dirname)]
local_s3_path(working_path) ==
    str_upto(working_path, str_find(working_path, S3Dirname) + Len(S3Dirname))

\* lines 91-96; rmtree either returns or raises
clean_up_s3_artifacts ==
    /\ pc = "clean"
    /\ LET working_path == cwd
           s3_ind == str_find(working_path, S3Dirname)
       IN  IF s3_ind # -1
           THEN /\ rmtree_calls' = Append(rmtree_calls, local_s3_path(working_path))
                /\ \E ok \in BOOLEAN :
                     IF ok THEN pc' = "done" /\ raised' = raised
                     ELSE pc' = "raised" /\ raised' = "OSError"
           ELSE /\ rmtree_calls' = rmtree_calls
                /\ pc' = "done"
                /\ raised' = raised
    /\ UNCHANGED <<entry, cfg, cfg_in, planners, planners_in, common_builder, calls,
                   cwd, env, CONFIG_PATH>>

----------------------------------------------------------------------------
(* The arguments of run_simulation and main *)

PlannerIds == {"P1", "P2"}

\* planners: None, one AbstractPlanner, or a list of them
None == [kind |-> "None", items |-> <<>>]
SinglePlanner(p) == [kind |-> "AbstractPlanner", items |-> <<p>>]
PlannerList(l) == [kind |-> "list", items |-> l]

PlannersArgs ==
    {None} \cup {SinglePlanner(p) : p \in PlannerIds}
           \cup {PlannerList(l) : l \in StrsUpTo(PlannerIds, MaxPlanners)}

\* the truth value Python gives `planners`: None and [] are false, a planner
\* object and a non-empty list are true
truthy(p) ==
    \/ p.kind = "AbstractPlanner"
    \/ p.kind = "list" /\ Len(p.items) > 0

\* isinstance(planners, AbstractPlanner)
is_AbstractPlanner(p) == p.kind = "AbstractPlanner"

OtherKeys == {"seed", "output_dir", "simulation_log_main_path"}

\* 's3://b', '/l' and '/s3:' as values of cfg.output_dir
OutputDirs ==
    { <<"s", "3", ":", "/", "/", "b">>, <<"/", "l">>, <<"/", "s", "3", ":">> }

\* a DictConfig: its keys, its struct flag, and the two options main reads
Configurations ==
    [keys : {OtherKeys, OtherKeys \cup {"planner"}},
     struct : BOOLEAN,
     simulation_log_main_path : {"None", "/log"},
     output_dir : OutputDirs]

\* '/w/s3:/b' and '/w' as working directories of a run
RunWorkingDirs ==
    { <<"/", "w", "/", "s", "3", ":", "/", "b">>, <<"/", "w">> }

\* is_s3_path of nuplan.common.utils.s3_utils: the path string starts with the
\* s3 scheme, as pathlib leaves it
is_s3_path(path) == StartsWith(path, S3Dirname \o Slash)

NoBuilder == [built |-> FALSE, profiler |-> FALSE]

IdleCfg ==
    [keys |-> OtherKeys, struct |-> TRUE, simulation_log_main_path |-> "None",
     output_dir |-> <<"/", "l">>]

----------------------------------------------------------------------------
(* Collaborator calls *)

\* one entry of `calls`: the collaborator, the Configuration it was handed (or
\* that was current), the pre-built planners and the profiler name it received
Call(name, pre_built_planners, profiler_name) ==
    [name |-> name, cfg |-> cfg, pre_built_planners |-> pre_built_planners,
     profiler_name |-> profiler_name]

NoPlanners == [kind |-> "n/a", items |-> <<>>]

\* a call of a collaborator: it returns, and control moves to `next`, or it
\* raises, and the exception leaves run_simulation
Invoke(call, next) ==
    /\ calls' = Append(calls, call)
    /\ \E ok \in BOOLEAN :
         IF ok THEN pc' = next /\ raised' = raised
         ELSE pc' = "raised" /\ raised' = "CollaboratorError"

----------------------------------------------------------------------------
(* run_simulation (lines 37-80) *)

UnchangedOutside == UNCHANGED <<entry, cfg_in, planners_in, cwd, rmtree_calls, env, CONFIG_PATH>>

\* line 48: profiler_name = 'building_simulation'
profiler_name == "building_simulation"

\* line 46: pl.seed_everything(cfg.seed, workers=True)
SeedEverything ==
    /\ pc = "seed_everything"
    /\ Invoke(Call("seed_everything", NoPlanners, ""), "set_up_common_builder")
    /\ UNCHANGED <<cfg, planners, common_builder>>
    /\ UnchangedOutside

\* line 49: common_builder = set_up_common_builder(cfg=cfg, profiler_name=profiler_name);
\* the context it returns has a profiler or has none
SetUpCommonBuilder ==
    /\ pc = "set_up_common_builder"
    /\ calls' = Append(calls, Call("set_up_common_builder", NoPlanners, profiler_name))
    /\ \/ /\ \E profiler \in BOOLEAN :
                common_builder' = [built |-> TRUE, profiler |-> profiler]
          /\ pc' = "build_callbacks_worker"
          /\ raised' = raised
       \/ /\ common_builder' = common_builder
          /\ pc' = "raised"
          /\ raised' = "CollaboratorError"
    /\ UNCHANGED <<cfg, planners>>
    /\ UnchangedOutside

\* line 52: callbacks_worker_pool = build_callbacks_worker(cfg)
BuildCallbacksWorker ==
    /\ pc = "build_callbacks_worker"
    /\ Invoke(Call("build_callbacks_worker", NoPlanners, ""), "build_simulation_callbacks")
    /\ UNCHANGED <<cfg, planners, common_builder>>
    /\ UnchangedOutside

\* a mutation of BuildSimulationCallbacks: a failure of the builder is swallowed
\* and the run goes on
BuildSimulationCallbacksSwallow ==
    /\ pc = "build_simulation_callbacks"
    /\ calls' = Append(calls, Call("build_simulation_callbacks", NoPlanners, ""))
    /\ pc' = "merge"
    /\ \E ok \in BOOLEAN :
         raised' = IF ok THEN raised ELSE "CollaboratorError"
    /\ UNCHANGED <<cfg, planners, common_builder>>
    /\ UnchangedOutside

\* line 53: callbacks = build_simulation_callbacks(cfg=cfg, output_dir=..., worker=...)
BuildSimulationCallbacks ==
    /\ pc = "build_simulation_callbacks"
    /\ Invoke(Call("build_simulation_callbacks", NoPlanners, ""), "merge")
    /\ UNCHANGED <<cfg, planners, common_builder>>
    /\ UnchangedOutside

\* a mutation of overrides_planner: the key is removed whatever `planners` is
overrides_planner_any(p, c) == "planner" \in c.keys

\* a mutation of overrides_planner: `planners is not None` in place of `planners`
overrides_planner_not_none(p, c) == p.kind # "None" /\ "planner" \in c.keys

\* line 56: planners and 'planner' in cfg.keys()
overrides_planner(p, c) == truthy(p) /\ "planner" \in c.keys

\* line 56: the test of the merge step
TestPlannerOverride ==
    /\ pc = "merge"
    /\ pc' = IF overrides_planner(planners, cfg) THEN "set_struct_false" ELSE "wrap"
    /\ UNCHANGED <<cfg, planners, common_builder, calls, raised>>
    /\ UnchangedOutside

\* line 58: OmegaConf.set_struct(cfg, False)
SetStructFalse ==
    /\ pc = "set_struct_false"
    /\ cfg' = [cfg EXCEPT !.struct = FALSE]
    /\ pc' = "pop"
    /\ UNCHANGED <<planners, common_builder, calls, raised>>
    /\ UnchangedOutside

\* line 59: cfg.pop('planner')
PopPlanner ==
    /\ pc = "pop"
    /\ cfg' = [cfg EXCEPT !.keys = @ \ {"planner"}]
    /\ pc' = "set_struct_true"
    /\ UNCHANGED <<planners, common_builder, calls, raised>>
    /\ UnchangedOutside

\* line 60: OmegaConf.set_struct(cfg, True)
SetStructTrue ==
    /\ pc = "set_struct_true"
    /\ cfg' = [cfg EXCEPT !.struct = TRUE]
    /\ pc' = "wrap"
    /\ UNCHANGED <<planners, common_builder, calls, raised>>
    /\ UnchangedOutside

\* a mutation of wrapped: the single planner is passed on as it is
wrapped_not(p) == p

\* lines 63-64: if isinstance(planners, AbstractPlanner): planners = [planners]
wrapped(p) == IF is_AbstractPlanner(p) THEN PlannerList(p.items) ELSE p

\* lines 63-64
WrapSinglePlanner ==
    /\ pc = "wrap"
    /\ planners' = wrapped(planners)
    /\ pc' = "build_simulations"
    /\ UNCHANGED <<cfg, common_builder, calls, raised>>
    /\ UnchangedOutside

\* lines 66-72: runners = build_simulations(cfg=cfg, ..., pre_built_planners=planners, ...)
BuildSimulations ==
    /\ pc = "build_simulations"
    /\ Invoke(Call("build_simulations", planners, ""), "profiler")
    /\ UNCHANGED <<cfg, planners, common_builder>>
    /\ UnchangedOutside

\* a mutation of has_profiler: the session is saved whether or not there is a profiler
has_profiler_always(cb) == TRUE

\* line 74: if common_builder.profiler
has_profiler(cb) == cb.profiler

\* lines 74-76: common_builder.profiler.save_profiler(profiler_name)
SaveProfiler ==
    /\ pc = "profiler"
    /\ IF has_profiler(common_builder)
       THEN Invoke(Call("save_profiler", NoPlanners, profiler_name), "run_runners")
       ELSE /\ pc' = "run_runners"
            /\ UNCHANGED <<calls, raised>>
    /\ UNCHANGED <<cfg, planners, common_builder>>
    /\ UnchangedOutside

\* line 79: run_runners(runners=..., common_builder=..., cfg=cfg, profiler_name='running_simulation')
RunRunners ==
    /\ pc = "run_runners"
    /\ Invoke(Call("run_runners", NoPlanners, "running_simulation"), "returned")
    /\ UNCHANGED <<cfg, planners, common_builder>>
    /\ UnchangedOutside

run_simulation ==
    \/ SeedEverything
    \/ SetUpCommonBuilder
    \/ BuildCallbacksWorker
    \/ BuildSimulationCallbacks
    \/ TestPlannerOverride
    \/ SetStructFalse
    \/ PopPlanner
    \/ SetStructTrue
    \/ WrapSinglePlanner
    \/ BuildSimulations
    \/ SaveProfiler
    \/ RunRunners

----------------------------------------------------------------------------
(* main (lines 99-115) *)

\* a mutation of log_path_unset: the assertion is gone
log_path_unchecked(c) == TRUE

\* line 109: cfg.simulation_log_main_path is None
log_path_unset(c) == c.simulation_log_main_path = "None"

\* line 109: assert cfg.simulation_log_main_path is None
AssertLogPathUnset ==
    /\ pc = "main"
    /\ IF log_path_unset(cfg)
       THEN pc' = "seed_everything" /\ raised' = raised
       ELSE pc' = "raised" /\ raised' = "AssertionError"
    /\ UNCHANGED <<cfg, planners, common_builder, calls>>
    /\ UnchangedOutside

\* a mutation of output_is_s3: the cleanup does not depend on the output directory
output_is_s3_always(c) == TRUE

\* line 114: is_s3_path(Path(cfg.output_dir))
output_is_s3(c) == is_s3_path(PurePath_str(c.output_dir))

\* lines 114-115, reached when run_simulation(cfg=cfg) has returned to main
CleanUpIfS3 ==
    /\ pc = "returned"
    /\ entry = "main"
    /\ IF output_is_s3(cfg)
       THEN /\ calls' = Append(calls, Call("clean_up_s3_artifacts", NoPlanners, ""))
            /\ pc' = "clean"
       ELSE /\ calls' = calls
            /\ pc' = "done"
    /\ UNCHANGED <<cfg, planners, common_builder, raised>>
    /\ UnchangedOutside

----------------------------------------------------------------------------
(* Specifications *)

\* a call of main(cfg), or a call of run_simulation(cfg, planners) by a program
\* that imported the module; main passes no planners (line 112)
Init ==
    /\ entry \in {"main", "run_simulation"}
    /\ pc = IF entry = "main" THEN "main" ELSE "seed_everything"
    /\ cfg \in Configurations
    /\ cfg_in = cfg
    /\ planners \in IF entry = "main" THEN {None} ELSE PlannersArgs
    /\ planners_in = planners
    /\ common_builder = NoBuilder
    /\ calls = <<>>
    /\ raised = "none"
    /\ cwd \in RunWorkingDirs
    /\ rmtree_calls = <<>>
    /\ env = Unset
    /\ CONFIG_PATH = DefaultConfigPath

Next ==
    \/ AssertLogPathUnset
    \/ run_simulation
    \/ CleanUpIfS3
    \/ clean_up_s3_artifacts

Spec == Init /\ [][Next]_vars

\* a call of clean_up_s3_artifacts() in any working directory
InitCleaner ==
    /\ entry = "clean_up_s3_artifacts"
    /\ pc = "clean"
    /\ cfg = IdleCfg
    /\ cfg_in = cfg
    /\ planners = None
    /\ planners_in = planners
    /\ common_builder = NoBuilder
    /\ calls = <<>>
    /\ raised = "none"
    /\ cwd \in WorkingDirs
    /\ rmtree_calls = <<>>
    /\ env = Unset
    /\ CONFIG_PATH = DefaultConfigPath

NextCleaner == clean_up_s3_artifacts

SpecCleaner == InitCleaner /\ [][NextCleaner]_vars

\* the import of the module, under any environment
InitResolver ==
    /\ entry = "import"
    /\ pc = "L27"
    /\ cfg = IdleCfg
    /\ cfg_in = cfg
    /\ planners = None
    /\ planners_in = planners
    /\ common_builder = NoBuilder
    /\ calls = <<>>
    /\ raised = "none"
    /\ cwd = Slash
    /\ rmtree_calls = <<>>
    /\ env \in Environments
    /\ CONFIG_PATH = <<>>

NextResolver ==
    \/ GetEnvConfigPath
    \/ JoinRelativePrefix
    \/ AppendSimulationDir
    \/ ScriptConfigPathOverride

SpecResolver == InitResolver /\ [][NextResolver]_vars

----------------------------------------------------------------------------
(* Properties *)

Names == [i \in 1..Len(calls) |-> calls[i].name]

CountOf(name) == Cardinality({i \in 1..Len(calls) : calls[i].name = name})

IsPrefix(a, b) == Len(a) <= Len(b) /\ SubSeq(b, 1, Len(a)) = a

LogPathSet == cfg_in.simulation_log_main_path # "None"

\* C1, as claimed: for every Configuration whose simulation_log_main_path is
\* non-null, a call of run_simulation(cfg, planners) fails before any
\* collaborator is called.
C1_RunSimulationFailsFast ==
    (entry = "run_simulation" /\ LogPathSet) =>
        /\ calls = <<>>
        /\ pc \in {"seed_everything", "raised"}

\* C1, amended: for every Configuration whose simulation_log_main_path is
\* non-null, a call of main(cfg) fails with an AssertionError before any
\* collaborator is called and leaves the Configuration as it was; a direct
\* call of run_simulation makes no such check and starts with the seeding.
C1_MainFailsFast ==
    /\ (entry = "main" /\ LogPathSet) =>
          /\ calls = <<>>
          /\ cfg = cfg_in
          /\ pc \in {"main", "raised"}
          /\ pc = "raised" => raised = "AssertionError"
    /\ (entry = "main" /\ ~LogPathSet) => raised # "AssertionError"
    /\ (entry = "run_simulation" /\ pc # "seed_everything") =>
          /\ Len(calls) >= 1
          /\ calls[1].name = "seed_everything"
          /\ raised # "AssertionError"

C1_Witness ==
    /\ entry = "main"
    /\ LogPathSet
    /\ pc = "raised"
    /\ raised = "AssertionError"

\* C2: called with a single planner P, not in a list, and a Configuration that
\* has a 'planner' key, run_simulation hands build_simulations a Configuration
\* without the 'planner' key and the one-element list [P].
C2_SinglePlannerIsWrapped ==
    \A i \in 1..Len(calls) :
        ( /\ calls[i].name = "build_simulations"
          /\ planners_in.kind = "AbstractPlanner"
          /\ "planner" \in cfg_in.keys ) =>
            /\ "planner" \notin calls[i].cfg.keys
            /\ calls[i].pre_built_planners.kind = "list"
            /\ calls[i].pre_built_planners.items = <<planners_in.items[1]>>

C2_Witness ==
    /\ planners_in = SinglePlanner("P1")
    /\ "planner" \in cfg_in.keys
    /\ Len(calls) = 5
    /\ calls[5].name = "build_simulations"

\* C3: called with planners=None and a Configuration that has a 'planner' key,
\* run_simulation leaves the Configuration as it was for the whole run (the key
\* stays, the struct flag is never set) and build_simulations receives None.
C3_NoPlannersLeavesConfig ==
    (planners_in = None /\ "planner" \in cfg_in.keys) =>
        /\ cfg = cfg_in
        /\ pc \notin {"set_struct_false", "pop", "set_struct_true"}
        /\ \A i \in 1..Len(calls) :
              /\ calls[i].cfg = cfg_in
              /\ calls[i].name = "build_simulations" =>
                    calls[i].pre_built_planners = None

C3_Witness ==
    /\ entry = "run_simulation"
    /\ planners_in = None
    /\ "planner" \in cfg_in.keys
    /\ pc = "returned"
    /\ CountOf("build_simulations") = 1

\* the call of main is over
MainOver == entry = "main" /\ pc \in {"done", "raised"}

\* run_simulation has returned to its caller
RunReturned ==
    /\ CountOf("run_runners") = 1
    /\ raised \notin {"AssertionError", "CollaboratorError"}
    /\ pc \in {"returned", "clean", "done", "raised"}

\* C4: main invokes clean_up_s3_artifacts if and only if run_simulation has
\* returned and the output directory is an s3 path: once, after run_runners has
\* returned, and never for a local output directory, a failed assertion or a
\* failed run.
C4_CleanUpIffS3 ==
    /\ CountOf("clean_up_s3_artifacts") <= 1
    /\ \A i \in 1..Len(calls) :
          calls[i].name = "clean_up_s3_artifacts" =>
             /\ entry = "main"
             /\ i = Len(calls)
             /\ i > 1
             /\ calls[i - 1].name = "run_runners"
             /\ raised \in {"none", "OSError"}
             /\ is_s3_path(PurePath_str(cfg_in.output_dir))
    /\ MainOver =>
          ( CountOf("clean_up_s3_artifacts") = 1
              <=> (RunReturned /\ is_s3_path(PurePath_str(cfg_in.output_dir))) )
    /\ pc = "clean" => CountOf("clean_up_s3_artifacts") = 1

C4_Witness ==
    /\ entry = "main"
    /\ pc = "done"
    /\ raised = "none"
    /\ CountOf("clean_up_s3_artifacts") = 1
    /\ cfg_in.output_dir = <<"s", "3", ":", "/", "/", "b">>

HasMarker(w) == \E i \in 0..Len(w) : OccursAt(w, S3Dirname, i)

\* the shortest prefix of w that ends with the marker
FirstMarkerPrefix(w) ==
    CHOOSE p \in {SubSeq(w, 1, n) : n \in 0..Len(w)} :
        /\ EndsWith(p, S3Dirname)
        /\ \A n \in 0..(Len(p) - 1) : ~EndsWith(SubSeq(w, 1, n), S3Dirname)

\* C5: for every working directory, clean_up_s3_artifacts calls rmtree once, on
\* the prefix of the working directory up to and including the first 's3:',
\* if the working directory contains 's3:'; and otherwise deletes nothing and
\* raises nothing.
C5_CleanerDeletesMarkerPrefix ==
    /\ pc = "clean" => rmtree_calls = <<>>
    /\ pc # "clean" =>
          IF HasMarker(cwd)
          THEN rmtree_calls = <<FirstMarkerPrefix(cwd)>>
          ELSE rmtree_calls = <<>> /\ raised = "none" /\ pc = "done"

C5_Witness ==
    /\ pc = "done"
    /\ cwd = <<"/", "s", "3", ":", "s", "3", ":">>
    /\ rmtree_calls = << <<"/", "s", "3", ":">> >>

\* run_simulation is over: it has returned or an exception has left it
RunOver == pc \in {"returned", "clean", "done", "raised"}

\* where the one call of a collaborator stands in `calls`, 0 if it was not called
IndexOf(name) ==
    IF \E i \in 1..Len(calls) : calls[i].name = name
    THEN CHOOSE i \in 1..Len(calls) : calls[i].name = name
    ELSE 0

\* build_simulations was called and has returned
BuildReturned ==
    /\ CountOf("build_simulations") = 1
    /\ pc # "build_simulations"
    /\ ~(pc = "raised" /\ calls[Len(calls)].name = "build_simulations")

\* what C6 says of the order and of the session names
ProfilerSessionOrder ==
    /\ CountOf("save_profiler") <= 1
    /\ \A i \in 1..Len(calls) :
          /\ calls[i].name = "save_profiler" =>
                /\ common_builder.profiler
                /\ calls[i].profiler_name = "building_simulation"
                /\ i > 1
                /\ calls[i - 1].name = "build_simulations"
          /\ calls[i].name = "run_runners" =>
                /\ calls[i].profiler_name = "running_simulation"
                /\ i > 1
                /\ calls[i - 1].name =
                      IF common_builder.profiler THEN "save_profiler"
                      ELSE "build_simulations"
          /\ calls[i].profiler_name = "running_simulation" =>
                calls[i].name = "run_runners"
    /\ ~common_builder.profiler => CountOf("save_profiler") = 0

\* C6, as claimed: in every run of run_simulation whose build context has a
\* profiler, the session 'building_simulation' is saved exactly once, after
\* build_simulations has returned and before run_runners is called;
\* 'running_simulation' is used only in the call of run_runners; without a
\* profiler save_profiler is never called.
C6_SavedInEveryRun ==
    /\ ProfilerSessionOrder
    /\ (RunOver /\ common_builder.profiler) => CountOf("save_profiler") = 1

\* C6, amended: in every run of run_simulation whose build context has a
\* profiler and in which build_simulations returns, save_profiler is called
\* exactly once, with 'building_simulation', right after build_simulations has
\* returned and before run_runners is called; in a run that a collaborator
\* ends before that, it is not called; 'running_simulation' is used only in
\* the call of run_runners; without a profiler save_profiler is never called.
C6_SavedOnceBuildReturns ==
    /\ ProfilerSessionOrder
    /\ (BuildReturned /\ common_builder.profiler /\ pc # "profiler") =>
          CountOf("save_profiler") = 1
    /\ ~BuildReturned => CountOf("save_profiler") = 0

C6_Witness ==
    /\ pc = "returned"
    /\ common_builder.profiler
    /\ CountOf("save_profiler") = 1
    /\ IndexOf("build_simulations") < IndexOf("save_profiler")
    /\ IndexOf("save_profiler") < IndexOf("run_runners")

LastComponentIs(p, c) ==
    /\ EndsWith(p, c)
    /\ \A i \in 1..Len(c) : c[i] # "/"
    /\ Len(p) > Len(c) => p[Len(p) - Len(c)] = "/"

\* the override re-rooted: an absolute value stands as it is
Rerooted(v) == IF Len(v) > 0 /\ v[1] = "/" THEN v ELSE RelativePrefix \o v

\* C7: once the module is imported, CONFIG_PATH is 'config/simulation' when
\* NUPLAN_HYDRA_CONFIG_PATH is absent; when it is set to V, CONFIG_PATH is
\* '../../../../' joined with V (os.path.join, so an absolute V stands alone),
\* with a 'simulation' component appended if and only if the last component
\* (what follows the last '/') is not 'simulation'. In every case the last
\* component of CONFIG_PATH is 'simulation', appended at most once.
C7_ConfigPathResolved ==
    pc \in {"imported", "script"} =>
        /\ LastComponentIs(CONFIG_PATH, Simulation)
        /\ pc = "imported" =>
              IF ~env.set THEN CONFIG_PATH = DefaultConfigPath
              ELSE LET j == Rerooted(env.value)
                   IN  /\ LastComponentIs(j, Simulation) <=> CONFIG_PATH = j
                       /\ \/ CONFIG_PATH = j
                          \/ CONFIG_PATH = j \o Slash \o Simulation /\ j[Len(j)] # "/"
                          \/ CONFIG_PATH = j \o Simulation /\ j[Len(j)] = "/"

C7_Witness ==
    /\ pc = "imported"
    /\ env.set
    /\ env.value = <<"x", "/", "x">>
    /\ CONFIG_PATH = RelativePrefix \o <<"x", "/", "x", "/">> \o Simulation

\* the collaborators of run_simulation in the order of the source
CallOrder(profiler) ==
    <<"seed_everything", "set_up_common_builder", "build_callbacks_worker",
      "build_simulation_callbacks", "build_simulations">>
    \o (IF profiler THEN <<"save_profiler">> ELSE <<>>)
    \o <<"run_runners">>

RunNames == SelectSeq(Names, LAMBDA n : n # "clean_up_s3_artifacts")

InMerge == pc \in {"merge", "set_struct_false", "pop", "set_struct_true", "wrap"}

CallOrderKept ==
    /\ IsPrefix(RunNames, CallOrder(common_builder.profiler))
    /\ InMerge => RunNames = SubSeq(CallOrder(FALSE), 1, 4)
    /\ cfg # cfg_in => Len(RunNames) >= 4
    /\ \A i \in 1..Len(calls) : i <= 4 => calls[i].cfg = cfg_in
    /\ raised = "CollaboratorError" =>
          /\ pc = "raised"
          /\ Len(RunNames) >= 1
    /\ pc \in {"returned", "clean", "done"} =>
          /\ RunNames = CallOrder(common_builder.profiler)
          /\ raised = "none"
    /\ (pc = "raised" /\ entry = "run_simulation") => raised = "CollaboratorError"
    /\ CountOf("run_runners") = 1 =>
          Len(RunNames) = Len(CallOrder(common_builder.profiler))

\* C8: the collaborator calls of a run of run_simulation are a prefix of
\* seed_everything, set_up_common_builder, build_callbacks_worker,
\* build_simulation_callbacks, (merge), build_simulations, (save_profiler),
\* run_runners, each called at most once; run_simulation returns exactly when
\* all of them have returned; once one has failed no further collaborator is
\* called and the exception leaves run_simulation; run_runners is called only
\* when every step before it has returned.
C8_CallsInOrder ==
    /\ []CallOrderKept
    /\ [][raised = "CollaboratorError" => calls' = calls /\ pc' = pc]_vars

C8_Witness ==
    /\ entry = "run_simulation"
    /\ pc = "returned"
    /\ cfg # cfg_in
    /\ RunNames = CallOrder(TRUE)

\* C9: whatever the planners argument and the Configuration, a Configuration
\* handed to build_simulations together with one or more planner instances has
\* no 'planner' key; the key is removed only in that case, and stays when
\* planners is None or an empty list.
C9_NoDualSpecification ==
    /\ \A i \in 1..Len(calls) :
          calls[i].name = "build_simulations" =>
             /\ Len(calls[i].pre_built_planners.items) >= 1 =>
                   "planner" \notin calls[i].cfg.keys
             /\ ( /\ "planner" \in cfg_in.keys
                  /\ Len(calls[i].pre_built_planners.items) = 0 ) =>
                   "planner" \in calls[i].cfg.keys
             /\ calls[i].cfg.keys \in {cfg_in.keys, cfg_in.keys \ {"planner"}}
    /\ cfg.keys # cfg_in.keys =>
          /\ planners_in.kind \in {"AbstractPlanner", "list"}
          /\ Len(planners_in.items) >= 1
    /\ (planners_in.kind = "None" \/ planners_in = PlannerList(<<>>)) =>
          cfg.keys = cfg_in.keys

C9_Witness ==
    /\ planners_in = PlannerList(<<"P1", "P2">>)
    /\ "planner" \in cfg_in.keys
    /\ Len(calls) >= 5
    /\ calls[5].name = "build_simulations"
    /\ calls[5].pre_built_planners = planners_in
    /\ "planner" \notin calls[5].cfg.keys

\* C10: run_simulation changes the Configuration at most once, and only by
\* removing the 'planner' key; the struct flag differs from what it was at
\* entry only between set_struct(cfg, False) and set_struct(cfg, True), no
\* collaborator is called in between, and after the merge step the flag is
\* what it was before it, so build_simulations and run_runners see the other
\* keys and the struct flag as they were at entry.
C10_ConfigRestored ==
    /\ cfg.keys \in {cfg_in.keys, cfg_in.keys \ {"planner"}}
    /\ cfg.simulation_log_main_path = cfg_in.simulation_log_main_path
    /\ cfg.output_dir = cfg_in.output_dir
    /\ cfg.struct # cfg_in.struct => pc \in {"pop", "set_struct_true"}
    /\ \A i \in 1..Len(calls) :
          /\ calls[i].cfg.struct = cfg_in.struct
          /\ calls[i].cfg.keys \ {"planner"} = cfg_in.keys \ {"planner"}

====
